---- MODULE Spec2Model ----
(***************************************************************************)
(* Vote-aggregation data layer of SondageWebApp: the SQLite tables of      *)
(* src/db.js (jeux, votes), the data-layer methods exported by db.js and   *)
(* the Express route handlers of src/app.js that call them.  Each request  *)
(* is handled by a worker; a worker's steps are the SQL statements its     *)
(* handler awaits, so statements of concurrent requests interleave.        *)
(***************************************************************************)
EXTENDS Bags, FiniteSets, Integers, Sequences, TLC

VARIABLES jeux, votes, users, req, nreq

vars == <<jeux, votes, users, req, nreq>>

(***************************************************************************)
(* Bounds and input domains                                                *)
(***************************************************************************)
\* requests the server receives in one behaviour
MaxRequests == 4

\* authenticated users (req.user.id)
Users == {"u1", "u2"}

Workers == {"w1", "w2"}

\* raw game names a client may send, as sequences of characters
RawNames == { <<>>, <<" ">>, <<"a">>, <<"A">> }

\* value of req.body.jeu: absent from the body, or a string
JeuBodies == {[kind |-> "undefined", str |-> <<>>]} \cup {[kind |-> "string", str |-> s] : s \in RawNames}

\* value of req.body.jeux: absent, a string (not an array), or an array of strings
JeuxBodies == {[kind |-> "undefined", list |-> <<>>], [kind |-> "string", list |-> <<>>]} \cup {[kind |-> "array", list |-> l] : l \in {<<>>, << <<"a">> >>, << <<"a">>, <<"A">> >>}}

(***************************************************************************)
(* String functions used by the handlers                                   *)
(***************************************************************************)
toLowerCaseChar(c) == IF c = "A" THEN "a" ELSE IF c = "B" THEN "b" ELSE IF c = "C" THEN "c" ELSE IF c = "S" THEN "s" ELSE c

toLowerCase(s) == [i \in 1..Len(s) |-> toLowerCaseChar(s[i])]

RECURSIVE trimStart(_)
trimStart(s) == IF s # <<>> /\ Head(s) = " " THEN trimStart(Tail(s)) ELSE s

RECURSIVE trimEnd(_)
trimEnd(s) == IF s # <<>> /\ s[Len(s)] = " " THEN trimEnd(SubSeq(s, 1, Len(s) - 1)) ELSE s

trim(s) == trimEnd(trimStart(s))

\* jeu.trim().toLowerCase()
jeuNormalise(s) == toLowerCase(trim(s))

\* a handler without the if (!jeu) test
FalsyNever(b) == FALSE

\* JavaScript !jeu for a body field that is undefined or a string
Falsy(b) == b.kind = "undefined" \/ (b.kind = "string" /\ b.str = <<>>)

(***************************************************************************)
(* Tables.  jeux is the sequence of nom values in id order (AUTOINCREMENT: *)
(* the id of a row is its position).  votes is the bag of (user_id,        *)
(* jeu_id) rows.  users is the set of (id, username, avatar) rows.          *)
(***************************************************************************)
Null == 0

\* the value of a row that does not exist (db.get calls back with row undefined)
NoUser == [id |-> "none", username |-> "none", avatar |-> "none"]

\* INSERT OR IGNORE INTO users: an existing row keeps its username and avatar
InsertOrIgnoreUser(us, user) == IF \E r \in us : r.id = user.id THEN us ELSE us \cup {user}

\* INSERT INTO users(id, username, avatar) VALUES(?, ?, ?)
\* ON CONFLICT(id) DO UPDATE SET username = excluded.username, avatar = excluded.avatar
UpsertUser(us, user) == IF \E r \in us : r.id = user.id THEN {r \in us : r.id # user.id} \cup {user} ELSE us \cup {user}

\* SELECT * FROM users WHERE id = ?  (db.get: the first matching row, or none)
getUserById(us, id) == IF \E r \in us : r.id = id THEN CHOOSE r \in us : r.id = id ELSE NoUser

JeuIds == 1..Len(jeux)

\* SELECT id FROM jeux WHERE nom = ?  (db.get: first matching row, or none)
SelectJeuId(nom) == IF \E i \in JeuIds : jeux[i] = nom THEN CHOOSE i \in JeuIds : jeux[i] = nom /\ \A k \in JeuIds : jeux[k] = nom => i <= k ELSE Null

\* jeux without the UNIQUE constraint on nom: no INSERT fails
JeuxUniqueNotEnforced(nom) == FALSE

\* nom TEXT UNIQUE: an INSERT of an existing nom fails
JeuxUniqueViolated(nom) == \E i \in JeuIds : jeux[i] = nom

\* INSERT OR REPLACE INTO jeux(id, nom) reusing the id of the newest row
InsertJeuReusingId(jx, nom) == IF jx = <<>> THEN <<nom>> ELSE [jx EXCEPT ![Len(jx)] = nom]

\* INSERT INTO jeux(nom) VALUES(?): a new row whose id is one past the last id
InsertJeu(jx, nom) == Append(jx, nom)

\* a plain INSERT into a votes table without UNIQUE(user_id, jeu_id)
InsertVoteAlways(v, u, g) == v (+) SetToBag({<<u, g>>})

\* UNIQUE(user_id, jeu_id) with INSERT OR IGNORE: the row is skipped when present
InsertOrIgnoreVote(v, u, g) == IF BagIn(<<u, g>>, v) THEN v ELSE v (+) SetToBag({<<u, g>>})

\* DELETE FROM votes WHERE jeu_id = ?  (the user_id condition forgotten)
DeleteVoteRowsOfJeu(v, u, g) == [e \in {x \in DOMAIN v : x[2] # g} |-> v[e]]

\* DELETE FROM votes WHERE user_id = ?  (the jeu_id condition forgotten)
DeleteVoteRowsOfUser(v, u, g) == [e \in {x \in DOMAIN v : x[1] # u} |-> v[e]]

\* DELETE FROM votes WHERE user_id = ? AND jeu_id = ?
\* (a NULL jeu_id compares equal to no row)
DeleteVoteRows(v, u, g) == IF g = Null THEN v ELSE [e \in (DOMAIN v) \ {<<u, g>>} |-> v[e]]

RECURSIVE BagCount(_, _)
BagCount(B, S) == IF S = {} THEN 0 ELSE LET e == CHOOSE x \in S : TRUE IN CopiesIn(e, B) + BagCount(B, S \ {e})

\* COUNT(v.user_id) of the group j.nom = nom in jeux j LEFT JOIN votes v ON j.id = v.jeu_id
GroupCount(jx, v, nom) == BagCount(v, {e \in DOMAIN v : e[2] \in 1..Len(jx) /\ jx[e[2]] = nom})

\* rows of getGlobalStatistics before ORDER BY: GROUP BY j.nom HAVING COUNT(v.user_id) > 0
StatRows(jx, v) == {[nom |-> n, votes |-> GroupCount(jx, v, n)] : n \in {m \in {jx[i] : i \in 1..Len(jx)} : GroupCount(jx, v, m) > 0}}

\* the query without its ORDER BY clause: the rows in any order
getGlobalStatisticsUnordered(jx, v) == {s \in [1..Cardinality(StatRows(jx, v)) -> StatRows(jx, v)] : \A i, k \in DOMAIN s : i # k => s[i] # s[k]}

\* ORDER BY votes DESC: every ordering of the rows the query may return (ties are not ordered)
getGlobalStatistics(jx, v) == {s \in [1..Cardinality(StatRows(jx, v)) -> StatRows(jx, v)] : (\A i, k \in DOMAIN s : i # k => s[i] # s[k]) /\ (\A i, k \in DOMAIN s : i < k => s[i].votes >= s[k].votes)}

\* SELECT j.nom FROM votes v JOIN jeux j ON v.jeu_id = j.id WHERE v.user_id = ?
\* the joined rows of user u: one (jeu_id, copy) per vote row whose game exists
UserGameRows(jx, v, u) == {r \in {m \in 1..Len(jx) : BagIn(<<u, m>>, v)} \X (1..BagCardinality(v)) : r[2] <= CopiesIn(<<u, r[1]>>, v)}

\* getUserGames resolves rows.map(r => r.nom): the names of the rows, in any order the query may return
getUserGames(jx, v, u) == {[i \in DOMAIN f |-> jx[f[i][1]]] : f \in {h \in [1..Cardinality(UserGameRows(jx, v, u)) -> UserGameRows(jx, v, u)] : \A i, k \in DOMAIN h : i # k => h[i] # h[k]}}

\* SELECT nom FROM jeux, rows.map(row => row.nom): the names, in any order the query may return
getAllJeux(jx) == {[i \in DOMAIN f |-> jx[f[i]]] : f \in {h \in [1..Len(jx) -> 1..Len(jx)] : \A i, k \in DOMAIN h : i # k => h[i] # h[k]}}

\* SELECT jeux.nom, COUNT(*): the row a LEFT JOIN keeps for a game without votes is counted
CountStar(jx, v, nom) == GroupCount(jx, v, nom) + Cardinality({g \in 1..Len(jx) : jx[g] = nom /\ \A e \in DOMAIN v : e[2] # g})

\* COUNT(votes.jeu_id) of the group jeux.nom = nom in jeux LEFT JOIN votes ON jeux.id = votes.jeu_id
CountJeuId(jx, v, nom) == GroupCount(jx, v, nom)

\* rows of getStatistiques before ORDER BY: GROUP BY jeux.nom, every game has a row
StatistiquesRows(jx, v) == {[nom |-> n, votes |-> CountJeuId(jx, v, n)] : n \in {jx[i] : i \in 1..Len(jx)}}

\* getStatistiques: ORDER BY votes DESC, ties in any order
getStatistiques(jx, v) == {s \in [1..Cardinality(StatistiquesRows(jx, v)) -> StatistiquesRows(jx, v)] : (\A i, k \in DOMAIN s : i # k => s[i] # s[k]) /\ (\A i, k \in DOMAIN s : i < k => s[i].votes >= s[k].votes)}

(***************************************************************************)
(* Requests                                                                *)
(***************************************************************************)
Idle == [pc |-> "idle", route |-> "none", user |-> "none", jeu |-> [kind |-> "undefined", str |-> <<>>], jeux |-> [kind |-> "undefined", list |-> <<>>], jeuId |-> Null, i |-> 0, status |-> 0, body |-> <<>>, profile |-> NoUser]

Respond(w, code) == req' = [req EXCEPT ![w].pc = "done", ![w].status = code]

Init == /\ jeux = <<>>
        /\ votes = EmptyBag
        /\ users = {}
        /\ req = [w \in Workers |-> Idle]
        /\ nreq = 0

\* a request arrives at an idle worker
Arrive(w) == /\ req[w].pc = "idle"
             /\ nreq < MaxRequests
             /\ nreq' = nreq + 1
             /\ UNCHANGED users

\* POST /api/ajouter-jeu by user u with body field jeu = b: validation, then addOrGetJeu(jeu) is issued
AjouterJeu(w, u, b) == LET r == [Idle EXCEPT !.route = "ajouter-jeu", !.user = u, !.jeu = b]
                       IN IF Falsy(b)
                          THEN req' = [req EXCEPT ![w] = [r EXCEPT !.pc = "done", !.status = 400]]
                          ELSE req' = [req EXCEPT ![w] = [r EXCEPT !.pc = "addOrGetJeu.get", !.jeuId = Null]]

PostAjouterJeu(w) == /\ Arrive(w)
                     /\ \E u \in Users, b \in JeuBodies : AjouterJeu(w, u, b)
                     /\ UNCHANGED <<jeux, votes>>

\* a loop that ends at the first item whose jeuNormalise is empty (break where the code skips)
NextJeuBreak(list, i) == IF i + 1 <= Len(list) /\ jeuNormalise(list[i + 1]) # <<>> THEN i + 1 ELSE Len(list) + 1

\* for (let jeu of jeux): the next item whose jeuNormalise is not empty, or one past the end
NextJeu(list, i) == IF \E k \in (i + 1)..Len(list) : jeuNormalise(list[k]) # <<>> THEN CHOOSE k \in (i + 1)..Len(list) : jeuNormalise(list[k]) # <<>> /\ \A m \in (i + 1)..(k - 1) : jeuNormalise(list[m]) = <<>> ELSE Len(list) + 1

\* POST /api/vote after an awaited statement of the loop: the next addOrGetJeu, or the success response
ForNextJeu(r) == LET k == NextJeu(r.jeux.list, r.i) IN IF k > Len(r.jeux.list) THEN [r EXCEPT !.pc = "done", !.status = 200, !.i = k] ELSE [r EXCEPT !.pc = "addOrGetJeu.get", !.i = k]

\* the name a handler passes to addOrGetJeu
JeuNomArg(w) == IF req[w].route = "vote" THEN jeuNormalise(req[w].jeux.list[req[w].i]) ELSE req[w].jeu.str

\* addOrGetJeu: db.get('SELECT id FROM jeux WHERE nom = ?')
AddOrGetJeuGet(w) == /\ req[w].pc = "addOrGetJeu.get"
                     /\ LET id == SelectJeuId(JeuNomArg(w))
                        IN IF id # Null
                           THEN req' = [req EXCEPT ![w].pc = "insertVote", ![w].jeuId = id]
                           ELSE req' = [req EXCEPT ![w].pc = "addOrGetJeu.run"]
                     /\ UNCHANGED <<jeux, votes, nreq, users>>

\* addOrGetJeu: db.run('INSERT INTO jeux(nom) VALUES(?)'), resolve(this.lastID)
AddOrGetJeuRun(w) == /\ req[w].pc = "addOrGetJeu.run"
                     /\ IF JeuxUniqueViolated(JeuNomArg(w))
                        THEN /\ Respond(w, 500)
                             /\ UNCHANGED jeux
                        ELSE /\ jeux' = InsertJeu(jeux, JeuNomArg(w))
                             /\ req' = [req EXCEPT ![w].pc = "insertVote", ![w].jeuId = Len(jeux) + 1]
                     /\ UNCHANGED <<votes, nreq, users>>

\* insertVote with a plain INSERT INTO votes: a present row violates UNIQUE(user_id, jeu_id) and the route answers 500
InsertVotePlain(w) == /\ req[w].pc = "insertVote"
                      /\ IF BagIn(<<req[w].user, req[w].jeuId>>, votes)
                         THEN /\ Respond(w, 500)
                              /\ UNCHANGED votes
                         ELSE /\ votes' = InsertVoteAlways(votes, req[w].user, req[w].jeuId)
                              /\ IF req[w].route = "vote"
                                 THEN req' = [req EXCEPT ![w] = ForNextJeu(req[w])]
                                 ELSE Respond(w, 200)
                      /\ UNCHANGED <<jeux, nreq, users>>

\* insertVote(req.user.id, jeuId), then the success response
InsertVote(w) == /\ req[w].pc = "insertVote"
                 /\ votes' = InsertOrIgnoreVote(votes, req[w].user, req[w].jeuId)
                 /\ IF req[w].route = "vote"
                    THEN req' = [req EXCEPT ![w] = ForNextJeu(req[w])]
                    ELSE Respond(w, 200)
                 /\ UNCHANGED <<jeux, nreq, users>>

\* POST /api/supprimer-jeu by user u with body field jeu = b: validation, then getJeuIdByName(jeu) is issued
SupprimerJeu(w, u, b) == LET r == [Idle EXCEPT !.route = "supprimer-jeu", !.user = u, !.jeu = b]
                         IN IF Falsy(b)
                            THEN req' = [req EXCEPT ![w] = [r EXCEPT !.pc = "done", !.status = 400]]
                            ELSE req' = [req EXCEPT ![w] = [r EXCEPT !.pc = "getJeuIdByName"]]

PostSupprimerJeu(w) == /\ Arrive(w)
                       /\ \E u \in Users, b \in JeuBodies : SupprimerJeu(w, u, b)
                       /\ UNCHANGED <<jeux, votes>>

\* a handler that calls addOrGetJeu where getJeuIdByName belongs: a missing name is inserted
GetJeuIdOrCreate(w) == /\ req[w].pc = "getJeuIdByName"
                       /\ LET id == SelectJeuId(req[w].jeu.str)
                          IN IF id = Null
                             THEN /\ jeux' = InsertJeu(jeux, req[w].jeu.str)
                                  /\ req' = [req EXCEPT ![w].pc = "deleteVoteForUser", ![w].jeuId = Len(jeux) + 1]
                             ELSE /\ req' = [req EXCEPT ![w].pc = "deleteVoteForUser", ![w].jeuId = id]
                                  /\ UNCHANGED jeux
                       /\ UNCHANGED <<votes, nreq, users>>

\* getJeuIdByName resolves row ? row.id : null; app.js answers 404 when !jeuId
GetJeuIdByName(w) == /\ req[w].pc = "getJeuIdByName"
                     /\ LET id == SelectJeuId(req[w].jeu.str)
                        IN IF id = Null
                           THEN req' = [req EXCEPT ![w].pc = "done", ![w].status = 404]
                           ELSE req' = [req EXCEPT ![w].pc = "deleteVoteForUser", ![w].jeuId = id]
                     /\ UNCHANGED <<jeux, votes, nreq, users>>

\* DELETE /api/vote/:jeuId: deleteVoteForUser(req.user.id, req.params.jeuId) is issued
DeleteVoteById(w) == /\ Arrive(w)
                     /\ \E u \in Users, g \in 1..(Len(jeux) + 1) :
                          req' = [req EXCEPT ![w] = [Idle EXCEPT !.route = "delete-vote", !.user = u, !.jeuId = g, !.pc = "deleteVoteForUser"]]
                     /\ UNCHANGED <<jeux, votes>>

\* deleteVoteForUser(userId, jeuId), then the success response
DeleteVoteForUser(w) == /\ req[w].pc = "deleteVoteForUser"
                        /\ votes' = DeleteVoteRows(votes, req[w].user, req[w].jeuId)
                        /\ Respond(w, 200)
                        /\ UNCHANGED <<jeux, nreq, users>>

\* POST /api/vote: validation; db.deleteVotesForUser is not a member of the
\* object db.js exports, so the call throws a TypeError inside the try block
\* and the catch answers 500 before any statement is issued
PostVote(w) == /\ Arrive(w)
               /\ \E u \in Users, b \in JeuxBodies :
                    LET r == [Idle EXCEPT !.route = "vote", !.user = u, !.jeux = b]
                    IN IF b.kind # "array"
                       THEN req' = [req EXCEPT ![w] = [r EXCEPT !.pc = "done", !.status = 400]]
                       ELSE req' = [req EXCEPT ![w] = [r EXCEPT !.pc = "done", !.status = 500]]
               /\ UNCHANGED <<jeux, votes>>

\* GET /api/statistiques: getGlobalStatistics() is issued
GetStatistiques(w) == /\ Arrive(w)
                      /\ req' = [req EXCEPT ![w] = [Idle EXCEPT !.route = "statistiques", !.pc = "getGlobalStatistics"]]
                      /\ UNCHANGED <<jeux, votes>>

\* the query runs and its rows are the response body
GetGlobalStatistics(w) == /\ req[w].pc = "getGlobalStatistics"
                          /\ \E rows \in getGlobalStatistics(jeux, votes) :
                               req' = [req EXCEPT ![w].pc = "done", ![w].status = 200, ![w].body = rows]
                          /\ UNCHANGED <<jeux, votes, nreq, users>>

\* the response has been sent; the worker takes the next request
Finish(w) == /\ req[w].pc = "done"
             /\ req' = [req EXCEPT ![w] = Idle]
             /\ UNCHANGED <<jeux, votes, nreq, users>>

\* data-layer steps and the handlers that every specification below uses
Steps(w) == \/ AddOrGetJeuGet(w)
            \/ AddOrGetJeuRun(w)
            \/ InsertVote(w)
            \/ DeleteVoteById(w)
            \/ DeleteVoteForUser(w)
            \/ GetStatistiques(w)
            \/ GetGlobalStatistics(w)
            \/ Finish(w)

\* the handlers of the two routes that take a game name
Common(w) == \/ Steps(w)
             \/ PostAjouterJeu(w)
             \/ PostSupprimerJeu(w)

\* src/app.js with src/db.js
Next == \E w \in Workers : \/ Common(w)
                           \/ GetJeuIdByName(w)
                           \/ PostVote(w)

Spec == Init /\ [][Next]_vars

(***************************************************************************)
(* The earlier server files (src/unnamed/part_000, part_001, part_002):    *)
(* POST /api/supprimer-jeu passes the result of getJeuIdByName to          *)
(* deleteVoteForUser without testing it.                                   *)
(***************************************************************************)
GetJeuIdByNameUnchecked(w) == /\ req[w].pc = "getJeuIdByName"
                              /\ req' = [req EXCEPT ![w].pc = "deleteVoteForUser", ![w].jeuId = SelectJeuId(req[w].jeu.str)]
                              /\ UNCHANGED <<jeux, votes, nreq, users>>

NextUnnamed == \E w \in Workers : \/ Common(w)
                                  \/ GetJeuIdByNameUnchecked(w)
                                  \/ PostVote(w)

SpecUnnamed == Init /\ [][NextUnnamed]_vars

(***************************************************************************)
(* POST /api/vote with a data layer that provides deleteVotesForUser.      *)
(* src/db.js does not define the method; here it clears the votes of the   *)
(* user, and the loop of the handler (app.js 246-252) runs after it.       *)
(***************************************************************************)
ReplaceBodies == {[kind |-> "undefined", list |-> <<>>]} \cup {[kind |-> "array", list |-> l] : l \in {<< <<"A">>, <<"b">> >>, << <<"b">>, <<" ">>, <<"c">> >>}}

\* POST /api/vote: validation, then deleteVotesForUser(req.user.id) is issued
PostVoteReplace(w) == /\ Arrive(w)
                      /\ \E u \in Users, b \in ReplaceBodies :
                           LET r == [Idle EXCEPT !.route = "vote", !.user = u, !.jeux = b]
                           IN IF b.kind # "array"
                              THEN req' = [req EXCEPT ![w] = [r EXCEPT !.pc = "done", !.status = 400]]
                              ELSE req' = [req EXCEPT ![w] = [r EXCEPT !.pc = "deleteVotesForUser"]]
                      /\ UNCHANGED <<jeux, votes>>

\* every row of the user is removed from votes
DeleteAllVoteRows(v, u) == [e \in {x \in DOMAIN v : x[1] # u} |-> v[e]]

\* deleteVotesForUser(req.user.id), then the loop over jeux starts
DeleteVotesForUser(w) == /\ req[w].pc = "deleteVotesForUser"
                         /\ votes' = DeleteAllVoteRows(votes, req[w].user)
                         /\ req' = [req EXCEPT ![w] = ForNextJeu(req[w])]
                         /\ UNCHANGED <<jeux, nreq, users>>

\* clients send /api/vote, DELETE /api/vote/:jeuId and /api/statistiques requests
NextReplace == \E w \in Workers : \/ Steps(w)
                                  \/ PostVoteReplace(w)
                                  \/ DeleteVotesForUser(w)

SpecReplace == Init /\ [][NextReplace]_vars

(***************************************************************************)
(* Replacing and retrying: a client sends a user's POST /api/vote when no  *)
(* other request of that user is being handled; requests of different      *)
(* users overlap                                                           *)
(***************************************************************************)
PostVoteRetry(w) == /\ PostVoteReplace(w)
                    /\ \A x \in Workers \ {w} : req[x].pc \in {"idle", "done"} \/ req[x].user # req'[w].user

NextRetry == \E w \in Workers : \/ PostVoteRetry(w)
                                \/ DeleteVotesForUser(w)
                                \/ AddOrGetJeuGet(w)
                                \/ AddOrGetJeuRun(w)
                                \/ InsertVote(w)
                                \/ Finish(w)

SpecRetry == Init /\ [][NextRetry]_vars

(***************************************************************************)
(* The "Chess" scenario: four clients use POST /api/ajouter-jeu, POST      *)
(* /api/supprimer-jeu and GET /api/statistiques one request after the      *)
(* other (each request is sent when the earlier ones have been answered)   *)
(***************************************************************************)
ChessName == <<"C", "h", "e", "s", "s">>

ChessBody == [kind |-> "string", str |-> ChessName]

ChessScript == << [route |-> "ajouter-jeu", user |-> "u1"], [route |-> "ajouter-jeu", user |-> "u2"], [route |-> "ajouter-jeu", user |-> "u3"], [route |-> "ajouter-jeu", user |-> "u4"], [route |-> "supprimer-jeu", user |-> "u4"], [route |-> "statistiques", user |-> "none"] >>

\* the next request of the script arrives at an idle worker
ChessRequest(w) == /\ req[w].pc = "idle"
                   /\ nreq < Len(ChessScript)
                   /\ \A x \in Workers : req[x].pc \in {"idle", "done"}
                   /\ nreq' = nreq + 1
                   /\ LET s == ChessScript[nreq + 1]
                      IN CASE s.route = "ajouter-jeu" -> AjouterJeu(w, s.user, ChessBody)
                           [] s.route = "supprimer-jeu" -> SupprimerJeu(w, s.user, ChessBody)
                           [] OTHER -> req' = [req EXCEPT ![w] = [Idle EXCEPT !.route = "statistiques", !.pc = "getGlobalStatistics"]]
                   /\ UNCHANGED <<jeux, votes, users>>

NextChess == \E w \in Workers : \/ ChessRequest(w)
                                \/ AddOrGetJeuGet(w)
                                \/ AddOrGetJeuRun(w)
                                \/ InsertVote(w)
                                \/ GetJeuIdByName(w)
                                \/ DeleteVoteForUser(w)
                                \/ GetGlobalStatistics(w)
                                \/ Finish(w)

SpecChess == Init /\ [][NextChess]_vars

(***************************************************************************)
(* Three spellings of one game sent to POST /api/ajouter-jeu               *)
(***************************************************************************)
CounterStrikeNames == { <<"C", "o", "u", "n", "t", "e", "r", "-", "S", "t", "r", "i", "k", "e">>, <<"c", "o", "u", "n", "t", "e", "r", "s", "t", "r", "i", "k", "e">>, <<"C", "o", "u", "n", "t", "e", "r", " ", "S", "t", "r", "i", "k", "e">> }

PostAjouterCounterStrike(w) == /\ Arrive(w)
                               /\ \E u \in Users, n \in CounterStrikeNames : AjouterJeu(w, u, [kind |-> "string", str |-> n])
                               /\ UNCHANGED <<jeux, votes>>

NextCounterStrike == \E w \in Workers : \/ PostAjouterCounterStrike(w)
                                        \/ AddOrGetJeuGet(w)
                                        \/ AddOrGetJeuRun(w)
                                        \/ InsertVote(w)
                                        \/ Finish(w)

SpecCounterStrike == Init /\ [][NextCounterStrike]_vars

(***************************************************************************)
(* The users table: the Discord callback stores the profile, GET /api/user *)
(* reads the record of the signed-in user                                  *)
(***************************************************************************)
\* profiles the identity provider may hand to the verify callback
Profiles == [id : Users, username : {"n1", "n2"}, avatar : {"v1", "v2"}]

\* passport verify callback with profile p: userData is built from the profile and addOrUpdateUser(userData) is issued
Verify(w, p) == req' = [req EXCEPT ![w] = [Idle EXCEPT !.route = "auth-callback", !.user = p.id, !.profile = p, !.pc = "addOrUpdateUser"]]

AuthCallback(w) == /\ Arrive(w)
                   /\ \E p \in Profiles : Verify(w, p)
                   /\ UNCHANGED <<jeux, votes>>

\* addOrUpdateUser(userData) runs, done(null, user), the browser is redirected
AddOrUpdateUser(w) == /\ req[w].pc = "addOrUpdateUser"
                      /\ users' = UpsertUser(users, req[w].profile)
                      /\ Respond(w, 302)
                      /\ UNCHANGED <<jeux, votes, nreq>>

\* GET /api/user of a signed-in user (deserializeUser found the record): getUserById(req.user.id) is issued
GetApiUser(w) == /\ Arrive(w)
                 /\ \E u \in Users : /\ getUserById(users, u) # NoUser
                                      /\ req' = [req EXCEPT ![w] = [Idle EXCEPT !.route = "user", !.user = u, !.pc = "getUserById"]]
                 /\ UNCHANGED <<jeux, votes>>

\* getUserById(req.user.id) runs; the record is the response body
GetUserById(w) == /\ req[w].pc = "getUserById"
                  /\ req' = [req EXCEPT ![w].pc = "done", ![w].status = 200, ![w].profile = getUserById(users, req[w].user)]
                  /\ UNCHANGED <<jeux, votes, users, nreq>>

NextUsers == \E w \in Workers : \/ AuthCallback(w)
                                \/ AddOrUpdateUser(w)
                                \/ GetApiUser(w)
                                \/ GetUserById(w)
                                \/ Finish(w)

SpecUsers == Init /\ [][NextUsers]_vars

(***************************************************************************)
(* GET /api/jeux with a backing query that may fail.  getUserGames calls   *)
(* reject(err) and then, without else, resolve(rows.map(...)) with rows    *)
(* undefined: the TypeError is thrown in the sqlite3 callback, outside the *)
(* promise, and no uncaughtException handler is installed, so the process  *)
(* ends, before or after the rejected await has answered 500               *)
(***************************************************************************)
\* GET /api/jeux: getUserGames(req.user.id) is issued
GetJeux(w) == /\ Arrive(w)
              /\ \E u \in Users : req' = [req EXCEPT ![w] = [Idle EXCEPT !.route = "jeux", !.user = u, !.pc = "getUserGames"]]
              /\ UNCHANGED <<jeux, votes>>

\* the query succeeds: the names are the response body
GetUserGames(w) == /\ req[w].pc = "getUserGames"
                   /\ \E rows \in getUserGames(jeux, votes, req[w].user) : req' = [req EXCEPT ![w].pc = "done", ![w].status = 200, ![w].body = rows]
                   /\ UNCHANGED <<jeux, votes, nreq, users>>

\* the query fails: reject(err), then rows.map throws in the callback
GetUserGamesError(w) == /\ req[w].pc = "getUserGames"
                        /\ \E st \in {0, 500} : req' = [req EXCEPT ![w].pc = "uncaughtException", ![w].status = st]
                        /\ UNCHANGED <<jeux, votes, nreq, users>>

\* the process handles requests until an exception is left uncaught
NextJeux == /\ \A x \in Workers : req[x].pc # "uncaughtException"
            /\ \E w \in Workers : \/ PostAjouterJeu(w)
                                  \/ AddOrGetJeuGet(w)
                                  \/ AddOrGetJeuRun(w)
                                  \/ InsertVote(w)
                                  \/ GetJeux(w)
                                  \/ GetUserGames(w)
                                  \/ GetUserGamesError(w)
                                  \/ Finish(w)

SpecJeux == Init /\ [][NextJeux]_vars

(***************************************************************************)
(* The routes of src/app.js that add or remove one vote by game name, the  *)
(* routes that only read, and the sign-in callback                         *)
(***************************************************************************)
\* GET /api/jeux/all: getAllJeux() is issued (the handler does not read req.user)
GetJeuxAll(w) == /\ Arrive(w)
                 /\ req' = [req EXCEPT ![w] = [Idle EXCEPT !.route = "jeux-all", !.pc = "getAllJeux"]]
                 /\ UNCHANGED <<jeux, votes>>

\* the query runs and the names are the response body
GetAllJeux(w) == /\ req[w].pc = "getAllJeux"
                 /\ \E rows \in getAllJeux(jeux) : req' = [req EXCEPT ![w].pc = "done", ![w].status = 200, ![w].body = rows]
                 /\ UNCHANGED <<jeux, votes, nreq, users>>

\* the sign-in callback for the profile a user has at the provider while the votes are cast
AuthCallbackSameProfile(w) == /\ Arrive(w)
                              /\ \E u \in Users : Verify(w, [id |-> u, username |-> "n1", avatar |-> "v1"])
                              /\ UNCHANGED <<jeux, votes>>

NextApp == \E w \in Workers : \/ PostAjouterJeu(w)
                              \/ AddOrGetJeuGet(w)
                              \/ AddOrGetJeuRun(w)
                              \/ InsertVote(w)
                              \/ PostSupprimerJeu(w)
                              \/ GetJeuIdByName(w)
                              \/ DeleteVoteForUser(w)
                              \/ GetStatistiques(w)
                              \/ GetGlobalStatistics(w)
                              \/ GetJeux(w)
                              \/ GetUserGames(w)
                              \/ GetJeuxAll(w)
                              \/ GetAllJeux(w)
                              \/ AuthCallbackSameProfile(w)
                              \/ AddOrUpdateUser(w)
                              \/ Finish(w)

SpecApp == Init /\ [][NextApp]_vars

(***************************************************************************)
(* Properties                                                              *)
(***************************************************************************)
\* Membership[u]: the games user u currently has a vote row for
Membership(v, u) == {g \in JeuIds : BagIn(<<u, g>>, v)}

\* the users whose membership contains game g
Members(v, g) == {u \in Users : BagIn(<<u, g>>, v)}

\* the votes a statistics response reports for a name (no row: no votes)
ReportedVotes(rows, nom) == IF \E i \in DOMAIN rows : rows[i].nom = nom THEN rows[CHOOSE i \in DOMAIN rows : rows[i].nom = nom].votes ELSE 0

Done(w, route) == req[w].pc = "done" /\ req[w].route = route

\* C1: in every reachable state the vote count the statistics query reports
\* for each game equals the number of distinct users whose membership
\* contains the game.
C1_StatisticsEqualMembers == \A rows \in getGlobalStatistics(jeux, votes) : \A g \in JeuIds : ReportedVotes(rows, jeux[g]) = Cardinality(Members(votes, g))

\* a game with two voters while a delete-by-id has just completed and a removal by name is in flight
C1_Witness == /\ \E g \in JeuIds : Cardinality(Members(votes, g)) = 2
              /\ \E w \in Workers : Done(w, "delete-vote") /\ req[w].status = 200
              /\ \E w \in Workers : req[w].route = "supprimer-jeu"

C3_AddVoteIdempotent == [][\A w \in Workers : (req[w].pc = "insertVote" /\ req'[w].pc # "insertVote") => LET u == req[w].user  g == req[w].jeuId IN /\ CopiesIn(<<u, g>>, votes') = 1 /\ (BagIn(<<u, g>>, votes) => votes' = votes) /\ (~BagIn(<<u, g>>, votes) => GroupCount(jeux', votes', jeux[g]) = GroupCount(jeux, votes, jeux[g]) + 1)]_vars

\* the only two requests so far are two completed adds of the same game by the same user
C3_Witness == /\ nreq = 2
              /\ \E w1, w2 \in Workers : /\ w1 # w2 /\ Done(w1, "ajouter-jeu") /\ Done(w2, "ajouter-jeu")
                                         /\ req[w1].status = 200 /\ req[w2].status = 200
                                         /\ req[w1].user = req[w2].user /\ req[w1].jeuId = req[w2].jeuId
                                         /\ GroupCount(jeux, votes, jeux[req[w1].jeuId]) = 1

\* C4: deleteVoteForUser(u, g) with g not in Membership[u] changes no table,
\* and no game ever has a negative vote count.
C4_RemoveNonMemberNoOp == [][/\ \A w \in Workers : (req[w].pc = "deleteVoteForUser" /\ req'[w].pc = "done" /\ ~BagIn(<<req[w].user, req[w].jeuId>>, votes)) => (votes' = votes /\ jeux' = jeux) /\ \A g \in 1..Len(jeux') : GroupCount(jeux', votes', jeux'[g]) >= 0]_vars

\* a removal by an id that no game has, by a user who keeps a vote
C4_Witness == \E w \in Workers : /\ Done(w, "delete-vote") /\ req[w].status = 200
                                 /\ req[w].jeuId > Len(jeux)
                                 /\ Membership(votes, req[w].user) # {}

\* the ids POST /api/vote is to leave in Membership[u]: the games of the non-blank names of the list
TargetNoms(list) == {jeuNormalise(list[k]) : k \in {m \in DOMAIN list : jeuNormalise(list[m]) # <<>>}}

\* C5: a replace-full-vote-set request with a list completes successfully
\* and, when no other request is in flight, leaves Membership[u] equal to
\* the games of the list.
C5_ReplaceSucceeds == \A w \in Workers : (Done(w, "vote") /\ req[w].jeux.kind = "array") => /\ req[w].status = 200 /\ ((\A x \in Workers \ {w} : req[x].pc = "idle") => {jeux[g] : g \in Membership(votes, req[w].user)} = TargetNoms(req[w].jeux.list))

\* C6: two completed add-one-game requests whose raw names normalize to the
\* same key were given the same game id.
C6_SameKeySameId == \A w1, w2 \in Workers : (Done(w1, "ajouter-jeu") /\ Done(w2, "ajouter-jeu") /\ req[w1].status = 200 /\ req[w2].status = 200 /\ jeuNormalise(req[w1].jeu.str) = jeuNormalise(req[w2].jeu.str)) => req[w1].jeuId = req[w2].jeuId

\* C7: a completed remove-one-game request whose name no game has was
\* answered 404.
C7_UnregisteredNameNotFound == \A w \in Workers : (Done(w, "supprimer-jeu") /\ ~Falsy(req[w].jeu) /\ SelectJeuId(req[w].jeu.str) = Null) => req[w].status = 404

\* the body fields the routes must reject: no name, an empty name, a payload that is not a list
InvalidInput(r) == \/ r.route \in {"ajouter-jeu", "supprimer-jeu"} /\ (r.jeu.kind = "undefined" \/ r.jeu.str = <<>>)
                   \/ r.route = "vote" /\ r.jeux.kind # "array"

\* C8: a request with a missing name or a non-list payload is answered 400
\* in the step that receives it, and that step changes no table.
C8_ValidationBeforeStorage == [][\A w \in Workers : (req[w].pc = "idle" /\ req'[w].pc # "idle" /\ InvalidInput(req'[w])) => (req'[w].pc = "done" /\ req'[w].status = 400 /\ jeux' = jeux /\ votes' = votes)]_vars

\* a nameless add and a non-list replace were both refused while votes exist
C8_Witness == /\ votes # EmptyBag
              /\ \E w1, w2 \in Workers : /\ Done(w1, "ajouter-jeu") /\ req[w1].jeu.kind = "undefined" /\ req[w1].status = 400
                                         /\ Done(w2, "vote") /\ req[w2].jeux.kind = "string" /\ req[w2].status = 400

\* C9: the registry holds no game whose normalized key is empty.
C9_NoEmptyKeyGame == \A g \in JeuIds : jeuNormalise(jeux[g]) # <<>>

C11_RegistryAppendOnly == [][Len(jeux') >= Len(jeux) /\ \A g \in JeuIds : jeux'[g] = jeux[g]]_vars

\* two games exist, and the vote a user added on the first one has been removed again
C11_Witness == /\ Len(jeux) = 2
               /\ votes = EmptyBag
               /\ \E w1, w2 \in Workers : /\ Done(w1, "ajouter-jeu") /\ req[w1].status = 200 /\ req[w1].jeuId = 1
                                          /\ Done(w2, "delete-vote") /\ req[w2].jeuId = 1 /\ req[w2].user = req[w1].user

C13_UnknownIdNotFound == \A w \in Workers : (Done(w, "delete-vote") /\ req[w].jeuId \notin JeuIds) => req[w].status = 404

(***************************************************************************)
(* C14: after three distinct users add a vote for "Chess" and a fourth     *)
(* user adds a vote for "Chess" and then removes it, the statistics hold   *)
(* one entry, Chess, with the votes of the three remaining members: four   *)
(* adds by distinct users and one removal yield 4 - 1 = 3                  *)
(***************************************************************************)
C14_ChessThreeVotes == \A w \in Workers : (Done(w, "statistiques") /\ nreq = Len(ChessScript)) => req[w].body = << [nom |-> ChessName, votes |-> 3] >>

\* the statistics of the scenario have been answered after four accepted adds and one accepted removal
C14_Witness == /\ nreq = Len(ChessScript)
               /\ \E w1, w2 \in Workers : /\ Done(w1, "statistiques") /\ req[w1].status = 200 /\ req[w1].body # <<>>
                                          /\ Done(w2, "supprimer-jeu") /\ req[w2].status = 200 /\ req[w2].user = "u4"
               /\ \A u \in {"u1", "u2", "u3"} : BagIn(<<u, 1>>, votes)

\* C14 as stated: the same scenario reports Chess with votes = 2
C14_ChessTwoVotes == \A w \in Workers : (Done(w, "statistiques") /\ nreq = Len(ChessScript)) => \E i \in DOMAIN req[w].body : req[w].body[i].nom = ChessName /\ req[w].body[i].votes = 2

(***************************************************************************)
(* C15: registering "Counter-Strike", "counterstrike" and "Counter Strike" *)
(* in any order yields a single game id: any two accepted registrations of *)
(* these names have the same key under jeuNormalise and the same game id   *)
(***************************************************************************)
C15_OneCounterStrikeId == \A w1, w2 \in Workers : (Done(w1, "ajouter-jeu") /\ Done(w2, "ajouter-jeu") /\ req[w1].status = 200 /\ req[w2].status = 200) => /\ jeuNormalise(req[w1].jeu.str) = jeuNormalise(req[w2].jeu.str)
                                                                                                                                                       /\ req[w1].jeuId = req[w2].jeuId

(***************************************************************************)
(* C16: user records are upserted, last write wins: there is one record    *)
(* per user id; when addOrUpdateUser completes, getUserById of that id     *)
(* returns the username and avatar of that call and the record of every    *)
(* other user is unchanged; no other step changes the users table          *)
(***************************************************************************)
C16_UpsertLastWriteWins == [][/\ \A r1, r2 \in users' : r1.id = r2.id => r1 = r2
                              /\ \A w \in Workers : (req[w].pc = "addOrUpdateUser" /\ req'[w].pc = "done") => /\ getUserById(users', req[w].profile.id) = req[w].profile
                                                                                                            /\ \A u \in Users \ {req[w].profile.id} : getUserById(users', u) = getUserById(users, u)
                              /\ (\A w \in Workers : ~(req[w].pc = "addOrUpdateUser" /\ req'[w].pc = "done")) => users' = users]_vars

\* a record read by GET /api/user has since been overwritten by a later sign-in of the same user, next to another user's record
C16_Witness == \E w1, w2 \in Workers : /\ Done(w1, "user") /\ Done(w2, "auth-callback")
                                      /\ req[w1].user = req[w2].user
                                      /\ req[w1].profile.username # req[w2].profile.username
                                      /\ req[w2].profile \in users
                                      /\ Cardinality(users) = 2

(***************************************************************************)
(* C17: getJeuIdByName never creates: the step that runs it leaves the     *)
(* games and the votes (hence memberships and counts) as they were, for a  *)
(* registered name it yields the id of the game with that name, and it     *)
(* yields null (answered 404) exactly when no game has that name           *)
(***************************************************************************)
C17_LookupNeverCreates == [][\A w \in Workers : (req[w].pc = "getJeuIdByName" /\ req'[w] # req[w]) => /\ jeux' = jeux
                                                                                                  /\ votes' = votes
                                                                                                  /\ IF \E g \in JeuIds : jeux[g] = req[w].jeu.str
                                                                                                     THEN req'[w].pc = "deleteVoteForUser" /\ req'[w].jeuId \in JeuIds /\ jeux[req'[w].jeuId] = req[w].jeu.str
                                                                                                     ELSE req'[w].pc = "done" /\ req'[w].status = 404]_vars

\* both outcomes side by side: a lookup of an unregistered name answered 404 and a lookup of a registered name that found its game
C17_Witness == \E w1, w2 \in Workers : /\ Done(w1, "supprimer-jeu") /\ req[w1].status = 404
                                      /\ req[w2].route = "supprimer-jeu" /\ req[w2].pc = "deleteVoteForUser" /\ jeux[req[w2].jeuId] = req[w2].jeu.str
                                      /\ votes # EmptyBag

(***************************************************************************)
(* C18: globalStatistics returns exactly one entry per game that currently *)
(* has at least one vote, no entry for a game without votes, and the       *)
(* entries are ordered by non-increasing vote count                        *)
(***************************************************************************)
C18_StatisticsEntries == \A rows \in getGlobalStatistics(jeux, votes) : /\ \A g \in JeuIds : Cardinality({i \in DOMAIN rows : rows[i].nom = jeux[g]}) = IF Members(votes, g) # {} THEN 1 ELSE 0
                                                                       /\ Len(rows) = Cardinality({g \in JeuIds : Members(votes, g) # {}})
                                                                       /\ \A i, k \in DOMAIN rows : i < k => rows[i].votes >= rows[k].votes

\* GET /api/statistiques has answered two entries with different counts, and they are the current statistics
C18_Witness == \E w \in Workers : /\ Done(w, "statistiques")
                                 /\ Len(req[w].body) = 2
                                 /\ req[w].body[1].votes > req[w].body[2].votes
                                 /\ req[w].body \in getGlobalStatistics(jeux, votes)

C20_NoExceptionOutsidePromise == \A w \in Workers : req[w].pc # "uncaughtException"

(***************************************************************************)
(* C21: a game's vote count (the COUNT of getStatistiques) changes only in *)
(* a step that changes some user's membership of that game; the steps of   *)
(* addOrGetJeu, getJeuIdByName, getAllJeux, getUserGames,                  *)
(* getGlobalStatistics and addOrUpdateUser leave every membership and      *)
(* every count unchanged; a newly created game has count 0                 *)
(***************************************************************************)
C21_CountFollowsMembership == [][/\ \A g \in JeuIds : CountJeuId(jeux', votes', jeux'[g]) # CountJeuId(jeux, votes, jeux[g]) => \E u \in Users : BagIn(<<u, g>>, votes') # BagIn(<<u, g>>, votes)
                                 /\ \A w \in Workers : (req[w].pc \in {"addOrGetJeu.get", "addOrGetJeu.run", "getJeuIdByName", "getAllJeux", "getUserGames", "getGlobalStatistics", "addOrUpdateUser"} /\ req'[w] # req[w]) => /\ votes' = votes
                                                                                                                                                                                                                    /\ \A g \in JeuIds : CountJeuId(jeux', votes', jeux'[g]) = CountJeuId(jeux, votes, jeux[g])
                                 /\ \A g \in (Len(jeux) + 1)..Len(jeux') : CountJeuId(jeux', votes', jeux'[g]) = 0]_vars

\* a second game has just been created and has no vote, next to a game with a vote, a stored user and an answered list of names
C21_Witness == /\ Len(jeux) = 2
               /\ CountJeuId(jeux, votes, jeux[1]) = 1
               /\ users # {}
               /\ \E w1, w2 \in Workers : /\ req[w1].pc = "insertVote" /\ req[w1].jeuId = 2 /\ CountJeuId(jeux, votes, jeux[2]) = 0
                                          /\ Done(w2, "jeux-all") /\ Len(req[w2].body) = 1

(***************************************************************************)
(* C22: two concurrent addOrGetJeu calls for one unseen name both succeed  *)
(* with the same id: no accepted POST /api/ajouter-jeu fails because the   *)
(* name was inserted between its SELECT and its INSERT                     *)
(***************************************************************************)
C22_ConcurrentCreateSucceeds == \A w \in Workers : (Done(w, "ajouter-jeu") /\ ~Falsy(req[w].jeu)) => req[w].status = 200 /\ req[w].jeuId \in JeuIds /\ jeux[req[w].jeuId] = req[w].jeu.str

C24_ConcurrentAddSameGame == [][\A w \in Workers : (req[w].route = "ajouter-jeu" /\ req'[w] # req[w]) => /\ ((req[w].pc = "addOrGetJeu.get" /\ SelectJeuId(req[w].jeu.str) # Null) => (req'[w].pc = "insertVote" /\ req'[w].jeuId = SelectJeuId(req[w].jeu.str)))
                                                                                                     /\ (req[w].pc = "insertVote" => (/\ req'[w].pc = "done" /\ req'[w].status = 200
                                                                                                                                     /\ CopiesIn(<<req[w].user, req[w].jeuId>>, votes') = 1
                                                                                                                                     /\ GroupCount(jeux', votes', jeux'[req[w].jeuId]) = GroupCount(jeux, votes, jeux[req[w].jeuId]) + (IF BagIn(<<req[w].user, req[w].jeuId>>, votes) THEN 0 ELSE 1)))]_vars

\* a game registered by another user's vote, and two requests of one user that have both found it and not yet inserted
C24_Witness == \E w1, w2 \in Workers : /\ w1 # w2
                                      /\ req[w1].route = "ajouter-jeu" /\ req[w2].route = "ajouter-jeu"
                                      /\ req[w1].user = req[w2].user /\ req[w1].jeuId = req[w2].jeuId
                                      /\ req[w1].pc = "insertVote" /\ req[w2].pc = "insertVote"
                                      /\ Cardinality(Members(votes, req[w1].jeuId)) = 1
                                      /\ ~BagIn(<<req[w1].user, req[w1].jeuId>>, votes)

(***************************************************************************)
(* C25: vote mutations are isolated per user: a step of a request made by  *)
(* user u (add, remove by name, delete by id, replace) leaves the vote     *)
(* rows of every other user as they were, whatever name or id u supplies   *)
(***************************************************************************)
C25_PerUserIsolation == [][\A w \in Workers : req'[w] # req[w] => \A v \in Users \ {req'[w].user} : \A g \in 1..(Len(jeux') + 1) : CopiesIn(<<v, g>>, votes') = CopiesIn(<<v, g>>, votes)]_vars

\* a user added a vote on a game another user voted for and deleted it by id; the other user's vote is still there
C25_Witness == \E w1, w2 \in Workers : /\ Done(w1, "delete-vote") /\ Done(w2, "ajouter-jeu") /\ req[w2].status = 200
                                      /\ req[w1].user = req[w2].user /\ req[w1].jeuId = req[w2].jeuId
                                      /\ ~BagIn(<<req[w1].user, req[w1].jeuId>>, votes)
                                      /\ Cardinality(Members(votes, req[w1].jeuId)) = 1

(***************************************************************************)
(* C26: every vote row refers to a game of the registry, so getUserGames   *)
(* returns exactly one name per game the user has a vote for, the names of *)
(* those games, and the empty list for a user without votes                *)
(***************************************************************************)
C26_MembershipRefersToGames == /\ \A e \in DOMAIN votes : e[2] \in JeuIds
                               /\ \A u \in Users : \A rows \in getUserGames(jeux, votes, u) : /\ Len(rows) = Cardinality({e \in DOMAIN votes : e[1] = u})
                                                                                             /\ {rows[i] : i \in DOMAIN rows} = {jeux[g] : g \in Membership(votes, u)}
                                                                                             /\ ({e \in DOMAIN votes : e[1] = u} = {} => rows = <<>>)

\* GET /api/jeux has answered the two names of a user with two votes and the empty list of a user without votes
C26_Witness == \E w1, w2 \in Workers : /\ Done(w1, "jeux") /\ Len(req[w1].body) = 2 /\ req[w1].body \in getUserGames(jeux, votes, req[w1].user)
                                      /\ Done(w2, "jeux") /\ req[w2].body = <<>> /\ Membership(votes, req[w2].user) = {}

====
